---- MODULE Spec2Model ----
(***************************************************************************)
(* Model of xml-bible-to-roam (src/src/main.rs): selector parsing, the     *)
(* streaming scan of the XML event stream, the document builder and the    *)
(* emitter.                                                                *)
(*                                                                         *)
(* Strings are sequences of one-character strings.  An Option<T> is a      *)
(* sequence of length 0 (None) or 1 (Some(x)).  A usize is held as its     *)
(* canonical decimal digits (no sign, no leading zero), because usize::MAX *)
(* is beyond the integers the model checker computes with; equality of     *)
(* canonical digits is equality of the numbers, and "{}" formatting of a   *)
(* usize prints exactly these digits.                                      *)
(***************************************************************************)
EXTENDS Naturals, Sequences, FiniteSets

VARIABLES
    chapters,               \* config.chapters: the selector strings (-c)
    pc,                     \* position of main()
    err,                    \* payload of the Error main() returned, if any
    expected_chapters,      \* Vec<BookAndChapter> of line 83
    num_expected_chapters,  \* line 89
    all_expected_books,     \* HashMap<String, Vec<usize>> of line 91
    in_book,                \* Option<(String, &[usize])>
    in_chapter,             \* Option<usize>
    in_verse,               \* Option<String>
    verses,                 \* Vec<String>: the accumulator
    finished_chapters,      \* Vec<(BookAndChapter, Vec<String>)>
    stop,                   \* how the loop was left: "none", "break", "eof"
    docs,                   \* Vec<RoamDocument> of line 172
    out,                    \* what reached stdout: Option<Vec<RoamDocument>>
    src,                    \* history: the structure of the source read so far
    used                    \* history: how many events of each kind were read

vars == <<chapters, pc, err, expected_chapters, num_expected_chapters,
          all_expected_books, in_book, in_chapter, in_verse, verses,
          finished_chapters, stop, docs, out, src, used>>

----------------------------------------------------------------------------
(* Bounds of the model.                                                    *)

MaxSelectors == 3   \* selectors on the command line
MaxChapters  == 3   \* <c> start events read
MaxTexts     == 2   \* text events read inside an open verse
MaxPieces    == 5   \* pieces a selector string is built from (SpecParse)
MaxOpenVerses == 1  \* <v> elements open at once that the history counts

----------------------------------------------------------------------------
(* Options and strings.                                                    *)

None == << >>
Some(x) == <<x>>
IsSome(o) == o # << >>
Unwrap(o) == o[1]

WhiteSpace == {" ", "\t"}
DecDigits == {"0", "1", "2", "3", "4", "5", "6", "7", "8", "9"}

DigitValue(c) ==
    CASE c = "0" -> 0 [] c = "1" -> 1 [] c = "2" -> 2 [] c = "3" -> 3
      [] c = "4" -> 4 [] c = "5" -> 5 [] c = "6" -> 6 [] c = "7" -> 7
      [] c = "8" -> 8 [] c = "9" -> 9

RECURSIVE SplitWs(_, _, _)
SplitWs(s, cur, acc) ==
    IF s = << >>
    THEN IF cur = << >> THEN acc ELSE Append(acc, cur)
    ELSE IF Head(s) \in WhiteSpace
         THEN SplitWs(Tail(s), << >>, IF cur = << >> THEN acc ELSE Append(acc, cur))
         ELSE SplitWs(Tail(s), Append(cur, Head(s)), acc)

\* str::split_whitespace: the maximal runs of non-whitespace characters.
split_whitespace(s) == SplitWs(s, << >>, << >>)

\* Mutant of next_back: takes the first token.
next_back_front(tokens) ==
    IF tokens = << >> THEN None ELSE Some(tokens[1])

\* DoubleEndedIterator::next_back on the token iterator.
next_back(tokens) ==
    IF tokens = << >> THEN None ELSE Some(tokens[Len(tokens)])

\* The iterator after next_back took its last item.
rest_after_next_back(tokens) == SubSeq(tokens, 1, Len(tokens) - 1)

RECURSIVE join(_, _)
\* itertools::join: the items separated by sep.
join(tokens, sep) ==
    IF tokens = << >> THEN << >>
    ELSE IF Len(tokens) = 1 THEN tokens[1]
    ELSE tokens[1] \o sep \o join(Tail(tokens), sep)

----------------------------------------------------------------------------
(* usize and its FromStr.                                                  *)

\* usize::MAX of a 64-bit target, 18446744073709551615, as digits.
UsizeMaxDigits ==
    <<"1","8","4","4","6","7","4","4","0","7","3","7","0","9","5","5","1","6","1","5">>

RECURSIVE StripZeros(_)
StripZeros(ds) ==
    IF Len(ds) > 1 /\ Head(ds) = "0" THEN StripZeros(Tail(ds)) ELSE ds

RECURSIVE DigitsLeq(_, _)
\* a <= b for digit strings of equal length.
DigitsLeq(a, b) ==
    IF a = << >> THEN TRUE
    ELSE IF DigitValue(Head(a)) < DigitValue(Head(b)) THEN TRUE
    ELSE IF DigitValue(Head(a)) > DigitValue(Head(b)) THEN FALSE
    ELSE DigitsLeq(Tail(a), Tail(b))

\* The number written by canonical digits ds fits a usize.
FitsUsize(ds) ==
    \/ Len(ds) < Len(UsizeMaxDigits)
    \/ Len(ds) = Len(UsizeMaxDigits) /\ DigitsLeq(ds, UsizeMaxDigits)

\* str::parse::<usize>: an optional "+", then one or more decimal digits,
\* the value checked against usize::MAX.  Result<usize, ParseIntError>.
parse_usize(tok) ==
    LET digits == IF tok # << >> /\ Head(tok) = "+" THEN Tail(tok) ELSE tok
    IN  IF digits = << >> THEN [ok |-> FALSE]
        ELSE IF \E i \in 1..Len(digits) : digits[i] \notin DecDigits
        THEN [ok |-> FALSE]
        ELSE IF ~FitsUsize(StripZeros(digits)) THEN [ok |-> FALSE]
        ELSE [ok |-> TRUE, val |-> StripZeros(digits)]

\* Display of a usize.
fmt_usize(n) == n

----------------------------------------------------------------------------
(* parse_chapter, lines 65-76.                                             *)

parse_chapter(s) ==
    LET tokens == split_whitespace(s)
        chapter_as_string == next_back(tokens)
    IN  IF ~IsSome(chapter_as_string)
        THEN [ok |-> FALSE, chapter |-> s]
        ELSE LET book == join(rest_after_next_back(tokens), <<" ">>)
                 chapter == parse_usize(Unwrap(chapter_as_string))
             IN  IF ~chapter.ok
                 THEN [ok |-> FALSE, chapter |-> s]
                 ELSE [ok |-> TRUE, book |-> book, chapter |-> chapter.val]

----------------------------------------------------------------------------
(* Argument handling, lines 83-97.                                         *)

RECURSIVE Collect_SkipBad(_, _)
\* Mutant of Collect: a selector that fails to parse is left out.
Collect_SkipBad(strs, acc) ==
    IF strs = << >> THEN [ok |-> TRUE, vals |-> acc]
    ELSE LET r == parse_chapter(Head(strs))
         IN  Collect_SkipBad(Tail(strs),
                 IF r.ok THEN Append(acc, [book |-> r.book, chapter |-> r.chapter])
                 ELSE acc)

RECURSIVE Collect(_, _)
\* .map(parse_chapter).collect::<Result<Vec<_>, Error>>(): the parsed
\* selectors in order, or the error of the first selector that fails.
Collect(strs, acc) ==
    IF strs = << >> THEN [ok |-> TRUE, vals |-> acc]
    ELSE LET r == parse_chapter(Head(strs))
         IN  IF r.ok
             THEN Collect(Tail(strs), Append(acc, [book |-> r.book, chapter |-> r.chapter]))
             ELSE [ok |-> FALSE, chapter |-> r.chapter]

\* line 89
NumExpected(ecs) == Len(ecs)

EmptyMap == [b \in {} |-> << >>]

\* acc.entry(cb.book).or_insert_with(Vec::new).push(cb.chapter)
PushEntry(acc, cb) ==
    [b \in DOMAIN acc \cup {cb.book} |->
        IF b = cb.book
        THEN Append(IF b \in DOMAIN acc THEN acc[b] ELSE << >>, cb.chapter)
        ELSE acc[b]]

RECURSIVE FoldBooks(_, _)
\* the fold of lines 91-97
FoldBooks(ecs, acc) ==
    IF ecs = << >> THEN acc ELSE FoldBooks(Tail(ecs), PushEntry(acc, Head(ecs)))

----------------------------------------------------------------------------
(* What the scanner calls on an event.                                     *)

AmpEntity == <<"&", "a", "m", "p", ";">>
LtEntity == <<"&", "l", "t", ";">>

StartsWith(s, p) == Len(s) >= Len(p) /\ SubSeq(s, 1, Len(p)) = p

RECURSIVE Unescape(_)
\* quick_xml's unescape: "&amp;" and "&lt;" stand for the other predefined
\* and numeric references; a "&" that starts no reference is an error.
Unescape(raw) ==
    IF raw = << >> THEN [ok |-> TRUE, val |-> << >>]
    ELSE LET skip == IF StartsWith(raw, AmpEntity) THEN Len(AmpEntity)
                     ELSE IF StartsWith(raw, LtEntity) THEN Len(LtEntity)
                     ELSE IF Head(raw) = "&" THEN 0 ELSE 1
             char == IF StartsWith(raw, AmpEntity) THEN "&"
                     ELSE IF StartsWith(raw, LtEntity) THEN "<"
                     ELSE Head(raw)
         IN  IF skip = 0 THEN [ok |-> FALSE]
             ELSE LET r == Unescape(SubSeq(raw, skip + 1, Len(raw)))
                  IN  IF r.ok THEN [ok |-> TRUE, val |-> <<char>> \o r.val]
                      ELSE r

\* get_name, lines 52-58: the unescaped value of attribute n; the unwraps
\* panic when the element has no such attribute or its value is malformed.
\* n is the attribute as the event carries it: None, or Some(raw value).
get_name(n) ==
    IF ~IsSome(n) THEN [ok |-> FALSE] ELSE Unescape(Unwrap(n))

\* Mutant of LookupBook: a book that was not requested gets the chapters
\* requested of another one.
LookupBook_AnyBook(map, book) ==
    IF DOMAIN map = {} THEN None
    ELSE Some([book |-> book, chapters |-> map[CHOOSE b \in DOMAIN map : TRUE]])

\* all_expected_books.get(&book).map(|chapters| (book.to_string(), chapters.as_slice()))
LookupBook(map, book) ==
    IF book \in DOMAIN map
    THEN Some([book |-> book, chapters |-> map[book]])
    ELSE None

\* Mutant of ChapterRequested: every chapter of a requested book matches.
ChapterRequested_Any(chs, chapter_num) == chs # << >>

\* chapters.iter().any(|c| *c == chapter_num)
ChapterRequested(chs, chapter_num) ==
    \E i \in 1..Len(chs) : chs[i] = chapter_num

\* format!("{}. {}", verse, value)
FormatVerse(verse, value) == verse \o <<".", " ">> \o value

\* Mutant of PushVerse: a further run of a verse is joined to its entry.
PushVerse_Joined(vs, verse, value) ==
    IF vs # << >> /\ StartsWith(vs[Len(vs)], verse \o <<".", " ">>)
    THEN [vs EXCEPT ![Len(vs)] = @ \o value]
    ELSE Append(vs, FormatVerse(verse, value))

\* line 162
PushVerse(vs, verse, value) == Append(vs, FormatVerse(verse, value))

----------------------------------------------------------------------------
(* History of the source: what the reader has delivered so far, as the     *)
(* document structure it spells.  src.ok says that the events read so far  *)
(* are a prefix of a conforming document: tags properly nested, books at   *)
(* the top, chapters inside books, verses inside chapters, every b, c, v   *)
(* with a well-formed attribute n (numeric on a chapter), text well        *)
(* escaped, no reader error; elements of other names are transparent.      *)
(* src.open is the stack of open b, c, v elements.  Of the chapters whose  *)
(* (book, chapter) key is among keys, src.closed holds those closed so     *)
(* far, each with its (verse label, text) runs, and src.runs the runs of   *)
(* the one that is open; src.skipped says that a text run was read inside  *)
(* a verse of a chapter whose key is not among keys, in a book of which    *)
(* keys has another chapter.  Once src.ok is lost the rest is dropped,     *)
(* but for the v elements: while src.vknown, src.vopen is the number of v  *)
(* start tags read so far that no v end tag has closed; it stays known     *)
(* until a v end tag comes with no v open, or more than MaxOpenVerses are  *)
(* open at once.  src.bad says that the reader failed on an event.         *)

SrcInit ==
    [ok |-> TRUE, bad |-> FALSE, skipped |-> FALSE,
     open |-> << >>, runs |-> << >>, closed |-> << >>,
     vknown |-> TRUE, vopen |-> 0]
SrcDead ==
    [ok |-> FALSE, bad |-> FALSE, skipped |-> FALSE,
     open |-> << >>, runs |-> << >>, closed |-> << >>,
     vknown |-> FALSE, vopen |-> 0]
SrcBad == [SrcDead EXCEPT !.bad = TRUE]

\* The source conforms no longer: only the count of open verses is kept.
SrcLoose(s) == [SrcDead EXCEPT !.vknown = s.vknown, !.vopen = s.vopen]

\* The count of open verses after a start or an end tag of this name.
SrcCount(s, name, delta) ==
    IF name # "v" \/ ~s.vknown THEN s
    ELSE IF delta = 1
         THEN IF s.vopen >= MaxOpenVerses
              THEN [s EXCEPT !.vknown = FALSE, !.vopen = 0]
              ELSE [s EXCEPT !.vopen = @ + 1]
         ELSE IF s.vopen = 0
              THEN [s EXCEPT !.vknown = FALSE]
              ELSE [s EXCEPT !.vopen = @ - 1]

HasOpen(s, name) == \E i \in 1..Len(s.open) : s.open[i].name = name

OpenAttr(s, name) ==
    LET i == CHOOSE j \in 1..Len(s.open) : s.open[j].name = name
    IN  s.open[i].n

SrcPush(s, name, val) == [s EXCEPT !.open = Append(@, [name |-> name, n |-> val])]

SrcNest(s, name, n) ==
    IF ~s.ok THEN s
    ELSE IF name = "o" THEN s
    ELSE IF ~get_name(n).ok THEN SrcLoose(s)
    ELSE IF name = "b"
         THEN IF HasOpen(s, "b") THEN SrcLoose(s)
              ELSE SrcPush(s, name, get_name(n).val)
    ELSE IF name = "c"
         THEN IF ~HasOpen(s, "b") \/ HasOpen(s, "c")
                 \/ ~parse_usize(get_name(n).val).ok
              THEN SrcLoose(s)
              ELSE [SrcPush(s, name, parse_usize(get_name(n).val).val)
                        EXCEPT !.runs = << >>]
    ELSE IF ~HasOpen(s, "c") \/ HasOpen(s, "v") THEN SrcLoose(s)
         ELSE SrcPush(s, name, get_name(n).val)

SrcStart(s, name, n) == SrcCount(SrcNest(s, name, n), name, 1)

OpenKey(s) == [book |-> OpenAttr(s, "b"), chapter |-> OpenAttr(s, "c")]

SrcUnnest(s, name, keys) ==
    IF ~s.ok \/ name = "o" THEN s
    ELSE IF s.open = << >> \/ s.open[Len(s.open)].name # name THEN SrcLoose(s)
    ELSE LET popped == [s EXCEPT !.open = SubSeq(@, 1, Len(@) - 1)]
         IN  IF name = "c" /\ OpenKey(s) \in keys
             THEN [popped EXCEPT
                      !.closed = Append(@, [book |-> OpenAttr(s, "b"),
                                            chapter |-> OpenAttr(s, "c"),
                                            runs |-> s.runs]),
                      !.runs = << >>]
             ELSE popped

SrcEnd(s, name, keys) == SrcCount(SrcUnnest(s, name, keys), name, 0)

SrcText(s, raw, keys) ==
    IF ~s.ok THEN s
    ELSE IF ~Unescape(raw).ok THEN SrcLoose(s)
    ELSE IF ~HasOpen(s, "v") THEN s
    ELSE IF OpenKey(s) \in keys
         THEN [s EXCEPT !.runs = Append(@, [label |-> OpenAttr(s, "v"),
                                            text |-> Unescape(raw).val])]
         ELSE IF \E k \in keys : k.book = OpenAttr(s, "b")
         THEN [s EXCEPT !.skipped = TRUE]
         ELSE s

SrcEof(s) == IF s.ok /\ s.open = << >> THEN s ELSE SrcLoose(s)

----------------------------------------------------------------------------
(* The inputs.                                                             *)

G1 == <<"G", " ", "1">>
G2 == <<"G", " ", "2">>
Gx == <<"G", " ", "x">>      \* no chapter number

SelectorPool == {G1, G2, Gx}

SeqsUpTo(S, n) == UNION {[1..k -> S] : k \in 0..n}

ElementNames == {"b", "c", "v", "o"}

\* The attribute n a start event may carry, by element name.
AttrPool(name) ==
    CASE name = "b" -> {None, Some(<<"G">>), Some(<<"X">>)}
      [] name = "c" -> {None, Some(<<"1">>), Some(<<"2">>), Some(<<"x">>)}
      [] name = "v" -> {None, Some(<<"1">>), Some(<<"2">>)}
      [] name = "o" -> {None}

\* The raw content of a text event; the last one is malformed.
TextPool == {<<"a">>, AmpEntity, <<"&">>}

UsedInit == [c |-> 0, t |-> 0]

----------------------------------------------------------------------------
(* main.                                                                   *)

Init ==
    /\ chapters \in SeqsUpTo(SelectorPool, MaxSelectors)
    /\ pc = "args"
    /\ err = None
    /\ expected_chapters = << >>
    /\ num_expected_chapters = 0
    /\ all_expected_books = EmptyMap
    /\ in_book = None
    /\ in_chapter = None
    /\ in_verse = None
    /\ verses = << >>
    /\ finished_chapters = << >>
    /\ stop = "none"
    /\ docs = << >>
    /\ out = None
    /\ src = SrcInit
    /\ used = UsedInit

\* The requested (book, chapter) keys.
Keys == {expected_chapters[i] : i \in 1..Len(expected_chapters)}

\* The reader delivers at most MaxChapters starts of a requested chapter
\* (one the scanner matches, or one whose key in the source is requested)
\* and at most MaxTexts text events inside a verse of such a chapter; the
\* other events are not counted, they build up nothing.
ChapterCounts(n) ==
    LET name == get_name(n)
        num == IF name.ok THEN parse_usize(name.val) ELSE [ok |-> FALSE]
    IN  /\ num.ok
        /\ \/ IsSome(in_book) /\ ChapterRequested(Unwrap(in_book).chapters, num.val)
           \/ /\ src.ok /\ HasOpen(src, "b")
              /\ [book |-> OpenAttr(src, "b"), chapter |-> num.val] \in Keys
CanStartChapter(n) == ChapterCounts(n) => used.c < MaxChapters
CountChapter(n) == IF ChapterCounts(n) THEN [used EXCEPT !.c = @ + 1] ELSE used

TextCounts ==
    \/ IsSome(in_book) /\ IsSome(in_chapter) /\ IsSome(in_verse)
    \/ src.ok /\ HasOpen(src, "v") /\ OpenKey(src) \in Keys
CanText == TextCounts => used.t < MaxTexts
CountText == IF TextCounts THEN [used EXCEPT !.t = @ + 1] ELSE used

scanVars == <<in_book, in_chapter, in_verse, verses, finished_chapters>>
argVars == <<chapters, expected_chapters, num_expected_chapters, all_expected_books>>
outVars == <<docs, out>>

\* lines 83-104
ParseArgs ==
    /\ pc = "args"
    /\ LET r == Collect(chapters, << >>)
       IN  IF r.ok
           THEN /\ expected_chapters' = r.vals
                /\ num_expected_chapters' = NumExpected(r.vals)
                /\ all_expected_books' = FoldBooks(r.vals, EmptyMap)
                /\ pc' = "scan"
                /\ err' = err
           ELSE /\ pc' = "BadChapter"
                /\ err' = Some(r.chapter)
                /\ UNCHANGED <<expected_chapters, num_expected_chapters,
                               all_expected_books>>
    /\ UNCHANGED <<chapters, scanVars, stop, outVars, src, used>>

\* main is left early: the locals of the loop are dropped.
\* finished_chapters is kept as it was, as the record of what the run had
\* collected; the history of the source ends here, as s.
Leave(to, s) ==
    /\ pc' = to
    /\ in_book' = None /\ in_chapter' = None /\ in_verse' = None
    /\ verses' = << >>
    /\ src' = s /\ used' = UsedInit
    /\ UNCHANGED <<err, argVars, finished_chapters, stop, outVars>>

\* A panic of an unwrap inside the loop ends the process.
Panic == Leave("panic", SrcDead)

\* lines 110-116
StartBook(n) ==
    /\ pc = "scan"
    /\ in_book = None
    /\ LET book == get_name(n)
       IN  IF ~book.ok THEN Panic
           ELSE /\ in_book' = LookupBook(all_expected_books, book.val)
                /\ src' = SrcStart(src, "b", n)
                /\ UNCHANGED <<pc, err, argVars, in_chapter, in_verse, verses,
                               finished_chapters, stop, outVars, used>>

\* lines 117-124
StartChapter(n) ==
    /\ pc = "scan" /\ CanStartChapter(n)
    /\ IsSome(in_book)
    /\ LET name == get_name(n)
           chapter_num == IF name.ok THEN parse_usize(name.val) ELSE [ok |-> FALSE]
       IN  IF ~chapter_num.ok THEN Panic
           ELSE /\ in_chapter' =
                      IF ChapterRequested(Unwrap(in_book).chapters, chapter_num.val)
                      THEN Some(chapter_num.val) ELSE None
                /\ src' = SrcStart(src, "c", n) /\ used' = CountChapter(n)
                /\ UNCHANGED <<pc, err, argVars, in_book, in_verse, verses,
                               finished_chapters, stop, outVars>>

\* lines 125-127
StartVerse(n) ==
    /\ pc = "scan"
    /\ IsSome(in_book) /\ IsSome(in_chapter)
    /\ LET name == get_name(n)
       IN  IF ~name.ok THEN Panic
           ELSE /\ in_verse' = Some(name.val)
                /\ src' = SrcStart(src, "v", n)
                /\ UNCHANGED <<pc, err, argVars, in_book, in_chapter, verses,
                               finished_chapters, stop, outVars, used>>

\* The start events that fall to the arm of line 128.
StartFallsThrough(name) ==
    \/ name = "b" /\ IsSome(in_book)
    \/ name = "c" /\ ~IsSome(in_book)
    \/ name = "v" /\ ~(IsSome(in_book) /\ IsSome(in_chapter))
    \/ name = "o"

\* line 128
StartIgnored(name, n) ==
    /\ pc = "scan" /\ (name = "c" => CanStartChapter(n))
    /\ StartFallsThrough(name)
    /\ src' = SrcStart(src, name, n)
    /\ used' = IF name = "c" THEN CountChapter(n) ELSE used
    /\ UNCHANGED <<pc, err, argVars, scanVars, stop, outVars>>

\* Mutant of EndBook: the book stays matched.
EndBook_KeepsBook ==
    /\ pc = "scan"
    /\ in_chapter' = None
    /\ src' = SrcEnd(src, "b", Keys)
    /\ UNCHANGED <<pc, err, argVars, in_book, in_verse, verses,
                   finished_chapters, stop, outVars, used>>

\* Mutant of EndBook: the chapter stays matched.
EndBook_KeepsChapter ==
    /\ pc = "scan"
    /\ in_book' = None
    /\ src' = SrcEnd(src, "b", Keys)
    /\ UNCHANGED <<pc, err, argVars, in_chapter, in_verse, verses,
                   finished_chapters, stop, outVars, used>>

\* lines 132-135
EndBook ==
    /\ pc = "scan"
    /\ in_book' = None
    /\ in_chapter' = None
    /\ src' = SrcEnd(src, "b", Keys)
    /\ UNCHANGED <<pc, err, argVars, in_verse, verses, finished_chapters, stop,
                   outVars, used>>

\* Mutant of AllDone: the loop goes on for one more chapter.
AllDone_OneMore(finished, expected) == Len(finished) = expected + 1

\* lines 149-152
AllDone(finished, expected) == Len(finished) = expected

\* Mutant of PushFinished: the new entry goes to the front.
PushFinished_Front(finished, entry) == <<entry>> \o finished

\* finished_chapters.push(...), lines 139-145
PushFinished(finished, entry) == Append(finished, entry)

\* lines 136-153
EndChapter ==
    /\ pc = "scan"
    /\ IsSome(in_book) /\ IsSome(in_chapter)
    /\ LET chapter_verses == verses
       IN  /\ verses' = << >>
           /\ finished_chapters' =
                 PushFinished(finished_chapters,
                              [book |-> Unwrap(in_book).book,
                               chapter |-> Unwrap(in_chapter),
                               verses |-> chapter_verses])
    /\ in_chapter' = None
    /\ IF AllDone(finished_chapters', num_expected_chapters)
       THEN pc' = "build" /\ stop' = "break" /\ used' = UsedInit
       ELSE UNCHANGED <<pc, stop, used>>
    /\ src' = SrcEnd(src, "c", Keys)
    /\ UNCHANGED <<err, argVars, in_book, in_verse, outVars>>

\* lines 154-156
EndVerse ==
    /\ pc = "scan"
    /\ IsSome(in_book) /\ IsSome(in_chapter)
    /\ in_verse' = None
    /\ src' = SrcEnd(src, "v", Keys)
    /\ UNCHANGED <<pc, err, argVars, in_book, in_chapter, verses,
                   finished_chapters, stop, outVars, used>>

\* The end events that fall to the arm of line 157.
EndFallsThrough(name) ==
    \/ name \in {"c", "v"} /\ ~(IsSome(in_book) /\ IsSome(in_chapter))
    \/ name = "o"

\* line 157
EndIgnored(name) ==
    /\ pc = "scan"
    /\ EndFallsThrough(name)
    /\ src' = SrcEnd(src, name, Keys)
    /\ UNCHANGED <<pc, err, argVars, scanVars, stop, outVars, used>>

\* lines 160-163
TextInVerse(raw) ==
    /\ pc = "scan" /\ CanText
    /\ IsSome(in_book) /\ IsSome(in_chapter) /\ IsSome(in_verse)
    /\ LET value == Unescape(raw)
       IN  IF ~value.ok THEN Panic
           ELSE /\ verses' = PushVerse(verses, Unwrap(in_verse), value.val)
                /\ src' = SrcText(src, raw, Keys) /\ used' = CountText
                /\ UNCHANGED <<pc, err, argVars, in_book, in_chapter, in_verse,
                               finished_chapters, stop, outVars>>

\* Mutant of TextIgnored: the text is kept all the same.
TextIgnored_Captures(raw) ==
    /\ pc = "scan" /\ CanText
    /\ ~(IsSome(in_book) /\ IsSome(in_chapter) /\ IsSome(in_verse))
    /\ verses' = Append(verses, raw)
    /\ src' = SrcText(src, raw, Keys) /\ used' = CountText
    /\ UNCHANGED <<pc, err, argVars, in_book, in_chapter, in_verse,
                   finished_chapters, stop, outVars>>

\* line 164
TextIgnored(raw) ==
    /\ pc = "scan" /\ CanText
    /\ ~(IsSome(in_book) /\ IsSome(in_chapter) /\ IsSome(in_verse))
    /\ src' = SrcText(src, raw, Keys) /\ used' = CountText
    /\ UNCHANGED <<pc, err, argVars, scanVars, stop, outVars>>

\* Mutant of ReadEof: the loop goes on after end-of-input.
ReadEof_Ignored ==
    /\ pc = "scan"
    /\ UNCHANGED vars

\* line 166
ReadEof ==
    /\ pc = "scan"
    /\ pc' = "build" /\ stop' = "eof"
    /\ src' = SrcEof(src) /\ used' = UsedInit
    /\ UNCHANGED <<err, argVars, scanVars, outVars>>

\* Mutant of ReadError: the reader's error ends the loop like end-of-input.
ReadError_AsEof ==
    /\ pc = "scan"
    /\ pc' = "build" /\ stop' = "eof"
    /\ src' = SrcBad /\ used' = UsedInit
    /\ UNCHANGED <<err, argVars, scanVars, outVars>>

\* line 167
ReadError ==
    /\ pc = "scan"
    /\ Leave("ParseError", SrcBad)

\* line 168: Empty, Comment, CData, Decl, PI and DocType events
ReadOther ==
    /\ pc = "scan"
    /\ UNCHANGED vars

----------------------------------------------------------------------------
(* The document builder, lines 172-200, and the emitter, line 202.         *)

BibleBookPrefix ==
    <<"B","i","b","l","e"," ","B","o","o","k",":",":"," ","[","[">>
LinkOpen == <<"[", "[">>
LinkClose == <<"]", "]">>

\* lines 177-181
VerseBlock(v) == [string |-> v, heading |-> None, children |-> None]

\* lines 175-182
VerseBlocks(vs) == [i \in 1..Len(vs) |-> VerseBlock(vs[i])]

\* format!("{} {}", bc.book, bc.chapter)
Title(bc) == bc.book \o <<" ">> \o fmt_usize(bc.chapter)

\* lines 187-191
BookBlock(bc) ==
    [string |-> BibleBookPrefix \o bc.book \o LinkClose,
     heading |-> None,
     children |-> None]

\* lines 192-196
ChapterBlock(bc, verse_blocks) ==
    [string |-> LinkOpen \o Title(bc) \o LinkClose,
     heading |-> None,
     children |-> Some(verse_blocks)]

\* Mutant of RoamDocument: the two blocks in the other order.
RoamDocument_Swapped(fc) ==
    [title |-> Title(fc),
     children |-> <<ChapterBlock(fc, VerseBlocks(fc.verses)), BookBlock(fc)>>]

\* lines 184-198
RoamDocument(fc) ==
    [title |-> Title(fc),
     children |-> <<BookBlock(fc), ChapterBlock(fc, VerseBlocks(fc.verses))>>]

\* lines 172-200
BuildDocs(finished) == [i \in 1..Len(finished) |-> RoamDocument(finished[i])]

\* lines 172-204, the write succeeds: the whole array reaches stdout
EmitOk ==
    /\ pc = "build"
    /\ docs' = BuildDocs(finished_chapters)
    /\ out' = Some(docs')
    /\ pc' = "done"
    /\ UNCHANGED <<err, argVars, scanVars, stop, src, used>>

\* lines 172-202, the write fails: main returns WriteJSON
EmitFails ==
    /\ pc = "build"
    /\ Leave("WriteJSON", SrcDead)

ReadEvent ==
    \/ \E n \in AttrPool("b") : StartBook(n)
    \/ \E n \in AttrPool("c") : StartChapter(n)
    \/ \E n \in AttrPool("v") : StartVerse(n)
    \/ \E name \in ElementNames : \E n \in AttrPool(name) : StartIgnored(name, n)
    \/ EndBook
    \/ EndChapter
    \/ EndVerse
    \/ \E name \in ElementNames : EndIgnored(name)
    \/ \E raw \in TextPool : TextInVerse(raw)
    \/ \E raw \in TextPool : TextIgnored(raw)
    \/ ReadEof
    \/ ReadError
    \/ ReadOther

Next == ParseArgs \/ ReadEvent \/ EmitOk \/ EmitFails

Spec == Init /\ [][Next]_vars

\* main goes on from one statement to the next, and the source is a finite
\* file: as long as the loop runs, the reader comes to deliver Eof.
Fairness ==
    /\ WF_vars(ParseArgs)
    /\ WF_vars(ReadEof)
    /\ WF_vars(EmitOk \/ EmitFails)

SpecLive == Spec /\ Fairness

----------------------------------------------------------------------------
(* parse_chapter on its own: one selector string, built from pieces.       *)

UsizeOverDigits ==
    <<"1","8","4","4","6","7","4","4","0","7","3","7","0","9","5","5","1","6","1","6">>

PiecePool ==
    {<<" ">>, <<"\t">>, <<"G">>, <<"0">>, <<"1">>, <<"+">>, <<"-">>,
     UsizeMaxDigits, UsizeOverDigits}

RECURSIVE Flatten(_)
Flatten(ps) == IF ps = << >> THEN << >> ELSE Head(ps) \o Flatten(Tail(ps))

ParseInputs == {Flatten(ps) : ps \in SeqsUpTo(PiecePool, MaxPieces)}

InitParse ==
    /\ chapters \in {<<s>> : s \in ParseInputs}
    /\ pc = "args"
    /\ err = None
    /\ expected_chapters = << >>
    /\ num_expected_chapters = 0
    /\ all_expected_books = EmptyMap
    /\ in_book = None
    /\ in_chapter = None
    /\ in_verse = None
    /\ verses = << >>
    /\ finished_chapters = << >>
    /\ stop = "none"
    /\ docs = << >>
    /\ out = None
    /\ src = SrcInit
    /\ used = UsedInit

SpecParse == InitParse /\ [][ParseArgs]_vars

----------------------------------------------------------------------------
(* The claims.  What a claim speaks of is defined here from the input,     *)
(* apart from the operators of the program above.                          *)

\* The k-th smallest member of a set of numbers.
Nth(S, k) == CHOOSE x \in S : Cardinality({y \in S : y <= x}) = k

\* Where the whitespace-separated tokens of s start and end.
TokenStarts(s) ==
    {i \in 1..Len(s) : s[i] \notin WhiteSpace /\ (i = 1 \/ s[i - 1] \in WhiteSpace)}
TokenEnds(s) ==
    {i \in 1..Len(s) : s[i] \notin WhiteSpace /\ (i = Len(s) \/ s[i + 1] \in WhiteSpace)}
TokenCount(s) == Cardinality(TokenStarts(s))
Token(s, k) == SubSeq(s, Nth(TokenStarts(s), k), Nth(TokenEnds(s), k))

\* t1 .. tm of s with one space between neighbours.
RECURSIVE SpacedTokens(_, _)
SpacedTokens(s, m) ==
    IF m = 0 THEN << >>
    ELSE IF m = 1 THEN Token(s, 1)
    ELSE SpacedTokens(s, m - 1) \o <<" ">> \o Token(s, m)

\* tok writes a non-negative integer: decimal digits, a "+" before them allowed.
Unsigned(tok) == IF Head(tok) = "+" THEN Tail(tok) ELSE tok
WritesNat(tok) ==
    /\ Unsigned(tok) # << >>
    /\ \A i \in 1..Len(Unsigned(tok)) : Unsigned(tok)[i] \in DecDigits

\* The number tok writes, as canonical digits.
NatOf(tok) ==
    LET d == Unsigned(tok)
        nz == {i \in 1..Len(d) : d[i] # "0"}
    IN  IF nz = {} THEN <<"0">> ELSE SubSeq(d, Nth(nz, 1), Len(d))

\* The number of canonical digits ds is at most usize::MAX.
AtMostUsizeMax(ds) ==
    \/ Len(ds) < Len(UsizeMaxDigits)
    \/ /\ Len(ds) = Len(UsizeMaxDigits)
       /\ \/ ds = UsizeMaxDigits
          \/ \E k \in 1..Len(ds) :
                /\ SubSeq(ds, 1, k - 1) = SubSeq(UsizeMaxDigits, 1, k - 1)
                /\ DigitValue(ds[k]) < DigitValue(UsizeMaxDigits[k])

ParsedOk(s, book, chapter) ==
    /\ pc = "scan"
    /\ expected_chapters = <<[book |-> book, chapter |-> chapter]>>

ParsedBad(s) == pc = "BadChapter" /\ err = Some(s)

\* C6 as stated: with tokens t1..tn of the selector, if tn writes a
\* non-negative integer N then book = t1..t(n-1) joined by single spaces and
\* chapter = N; with no token, or tn no such number, BadChapter carries the
\* selector unchanged.
C6_AsStated ==
    pc # "args" =>
        LET s == chapters[1]
            n == TokenCount(s)
        IN  IF n >= 1 /\ WritesNat(Token(s, n))
            THEN ParsedOk(s, SpacedTokens(s, n - 1), NatOf(Token(s, n)))
            ELSE ParsedBad(s)

\* C6 amended: the same, for a number N that is at most usize::MAX; a last
\* token that writes a larger number gives BadChapter like one that writes
\* no number.
C6_ParseChapter ==
    pc # "args" =>
        LET s == chapters[1]
            n == TokenCount(s)
        IN  IF n >= 1 /\ WritesNat(Token(s, n)) /\ AtMostUsizeMax(NatOf(Token(s, n)))
            THEN ParsedOk(s, SpacedTokens(s, n - 1), NatOf(Token(s, n)))
            ELSE ParsedBad(s)

\* A selector of three tokens, the first two parted by a tab, has been
\* parsed.
C6_Witness ==
    /\ pc = "scan"
    /\ chapters = << <<"G", "\t", "G", " ", "1">> >>
    /\ expected_chapters = <<[book |-> <<"G", " ", "G">>, chapter |-> <<"1">>]>>

----------------------------------------------------------------------------
(* Claims about the run.                                                   *)

\* A selector parse_chapter must refuse: no token, or a last token that
\* writes no number of usize.
BadSelector(s) ==
    \/ TokenCount(s) = 0
    \/ ~WritesNat(Token(s, TokenCount(s)))
    \/ ~AtMostUsizeMax(NatOf(Token(s, TokenCount(s))))

BadSelectors == {i \in 1..Len(chapters) : BadSelector(chapters[i])}

C5_ParseErrorNoOutput ==
    /\ src.bad => (pc = "ParseError" /\ out = None /\ docs = << >>)
    /\ IsSome(out) => (pc = "done" /\ stop \in {"eof", "break"} /\ ~src.bad)

\* The reader failed after a chapter had been finished.
C5_Witness == pc = "ParseError" /\ src.bad /\ Len(finished_chapters) >= 1

BibleBookText ==
    <<"B","i","b","l","e"," ","B","o","o","k",":",":"," ">>
Leaf(str) == [string |-> str, heading |-> None, children |-> None]
Linked(str) == <<"[", "[">> \o str \o <<"]", "]">>

\* C9: the documents are the finished chapters one for one, in order; the
\* document of (book, chapter, verses) is titled "<book> <chapter>" and has
\* two children: the leaf "Bible Book:: [[<book>]]", then the block
\* "[[<book> <chapter>]]" without heading whose children are the leaves of
\* the verses in order.
C9_DocumentBuilder ==
    pc = "done" =>
        /\ out = Some(docs)
        /\ Len(docs) = Len(finished_chapters)
        /\ \A i \in 1..Len(docs) :
              LET fc == finished_chapters[i]
                  d == docs[i]
                  name == fc.book \o <<" ">> \o fc.chapter
              IN  /\ d.title = name
                  /\ Len(d.children) = 2
                  /\ d.children[1] = Leaf(BibleBookText \o Linked(fc.book))
                  /\ d.children[2].string = Linked(name)
                  /\ d.children[2].heading = None
                  /\ IsSome(d.children[2].children)
                  /\ LET kids == Unwrap(d.children[2].children)
                     IN  /\ Len(kids) = Len(fc.verses)
                         /\ \A j \in 1..Len(kids) : kids[j] = Leaf(fc.verses[j])

\* Two documents were emitted, one of them with two verse leaves.
C9_Witness ==
    /\ pc = "done" /\ Len(docs) = 2
    /\ \E i \in 1..2 : Len(Unwrap(docs[i].children[2].children)) = 2

----------------------------------------------------------------------------
(* Claims that relate the result to the source.                            *)

KeyOf(c) == [book |-> c.book, chapter |-> c.chapter]
KeysOf(cs) == [i \in 1..Len(cs) |-> KeyOf(cs[i])]
CountOf(cs, k) == Cardinality({i \in 1..Len(cs) : KeyOf(cs[i]) = k})

\* "<verse-label>. <text>" for each run.
FormatRuns(rs) == [i \in 1..Len(rs) |-> rs[i].label \o <<".", " ">> \o rs[i].text]

\* The source read so far is a conforming one, and the run has not failed.
Conforming == src.ok /\ pc \in {"scan", "build", "done"}

ChapterOpen(k) == src.ok /\ HasOpen(src, "c") /\ OpenKey(src) = k

\* How often chapter k occurs in the source read so far.
Occurs(k) == CountOf(src.closed, k) + (IF ChapterOpen(k) THEN 1 ELSE 0)

\* C10: while a requested chapter of a conforming source is open, the
\* accumulator holds one entry "<label>. <text>" for each text run read
\* inside its verses, in order: k runs inside one verse are k entries with
\* that verse's label.
C10_SeparateEntries ==
    (Conforming /\ pc = "scan" /\ \E k \in Keys : ChapterOpen(k)) =>
        verses = FormatRuns(src.runs)

\* Two runs were read inside one verse.
C10_Witness ==
    /\ Conforming /\ pc = "scan" /\ HasOpen(src, "v")
    /\ src.runs = <<[label |-> <<"1">>, text |-> <<"a">>],
                    [label |-> <<"1">>, text |-> <<"&">>]>>
    /\ verses = << <<"1", ".", " ", "a">>, <<"1", ".", " ", "&">> >>

\* C3: with one selector (X, k) and a conforming source, nothing is
\* finished before chapter k of X is closed, and from then on exactly one
\* chapter is: (X, k), with the entries "<label>. <text>" of exactly the
\* runs inside the verses of that chapter, in source order.
C3_ChapterVerses ==
    (Conforming /\ Len(expected_chapters) = 1) =>
        IF src.closed = << >>
        THEN finished_chapters = << >>
        ELSE finished_chapters =
                <<[book |-> expected_chapters[1].book,
                   chapter |-> expected_chapters[1].chapter,
                   verses |-> FormatRuns(src.closed[1].runs)]>>

\* Chapter 2 of G was finished with a verse, after text inside a verse of
\* another chapter of G had been read.
C3_Witness ==
    /\ Conforming /\ pc = "done" /\ chapters = <<G2>>
    /\ src.skipped
    /\ Len(finished_chapters) = 1 /\ finished_chapters[1].verses # << >>

\* C1: with N distinct keys requested and a conforming source in which each
\* of them occurs at most once so far, the finished chapters are the
\* requested chapters closed so far, one for one; when all N are closed the
\* loop has been left by the break (nothing after that boundary is read),
\* and the run that ends emits N documents.
C1_AllFoundStops ==
    LET N == Len(expected_chapters)
    IN  (Conforming /\ N >= 1 /\ Cardinality(Keys) = N
            /\ \A k \in Keys : Occurs(k) <= 1) =>
            /\ KeysOf(finished_chapters) = KeysOf(src.closed)
            /\ Len(src.closed) = N =>
                  /\ pc \in {"build", "done"} /\ stop = "break"
                  /\ \A k \in Keys : CountOf(finished_chapters, k) = 1
                  /\ pc = "done" => (IsSome(out) /\ Len(Unwrap(out)) = N)

\* Two distinct chapters were requested, both were closed, and two
\* documents were emitted after the break.
C1_Witness ==
    /\ Conforming /\ pc = "done" /\ stop = "break"
    /\ Len(expected_chapters) = 2 /\ Cardinality(Keys) = 2
    /\ Len(src.closed) = 2 /\ Len(Unwrap(out)) = 2

\* C2 as stated: the loop is left at the chapter end at which the number
\* of finished chapters first equals the number of distinct requested
\* keys: while the loop runs fewer are finished, and the break leaves it
\* with exactly that many.
C2_AsStated ==
    /\ (pc = "scan" /\ finished_chapters # << >>) =>
            Len(finished_chapters) < Cardinality(Keys)
    /\ stop = "break" => Len(finished_chapters) = Cardinality(Keys)

\* C4 as stated: when a requested key never occurs in a conforming source,
\* the scan ends by end-of-input, nothing is finished for that key, and the
\* run succeeds; when no requested key occurs, no document is emitted.
C4_AsStated ==
    (Conforming /\ pc \in {"build", "done"}) =>
        /\ \A k \in Keys :
              Occurs(k) = 0 =>
                  (stop = "eof" /\ CountOf(finished_chapters, k) = 0)
        /\ (\A k \in Keys : Occurs(k) = 0) =>
              (finished_chapters = << >> /\ (pc = "done" => out = Some(<< >>)))

\* C8 as stated: a key requested more than once is finished exactly once
\* when the source holds its chapter once.  After the break the rest of the
\* source is not read: a chapter not read so far may be there once.
C8_AsStated ==
    (Conforming /\ pc \in {"build", "done"}) =>
        \A k \in Keys :
            (/\ CountOf(expected_chapters, k) >= 2
             /\ \/ Occurs(k) = 1
                \/ Occurs(k) = 0 /\ stop = "break") =>
                CountOf(finished_chapters, k) = 1

----------------------------------------------------------------------------
(* Claims about the states of the scanner.                                 *)

\* A chapter-start event is processed and its chapter is a requested one of
\* the matched book.
EntersChapter ==
    /\ \E n \in AttrPool("c") : StartChapter(n)
    /\ IsSome(in_chapter')

\* C11 as stated: whenever the scanner enters a matched chapter, after any
\* sequence of events, the verse accumulator is empty.
C11_AsStated == [][EntersChapter => verses' = << >>]_vars

\* C13: in every reachable state, the (book, chapter) key of every entry of
\* finished_chapters is one of the requested keys.
C13_FinishedAreRequested ==
    \A i \in 1..Len(finished_chapters) : KeyOf(finished_chapters[i]) \in Keys

\* Two chapters were finished, the second of them while the source no
\* longer conformed.
C13_Witness ==
    /\ pc = "scan" /\ ~src.ok
    /\ Len(finished_chapters) = 2
    /\ KeyOf(finished_chapters[1]) # KeyOf(finished_chapters[2])

\* C14 as stated: in every reachable state, no two entries of
\* finished_chapters have the same (book, chapter) key.
C14_AsStated ==
    \A i, j \in 1..Len(finished_chapters) :
        i # j => KeyOf(finished_chapters[i]) # KeyOf(finished_chapters[j])

\* A text event appends an entry to the accumulator.
Captures ==
    /\ \E raw \in TextPool : TextInVerse(raw)
    /\ Len(verses') = Len(verses) + 1

\* C12 as stated: a text event appends an entry only if, at that point of
\* the source, a verse is open inside a requested chapter of a requested
\* book.  Of a source that conforms no longer the history keeps the count
\* of open verses only: there the statement is that some verse is open.
C12_AsStated ==
    [][Captures =>
          IF src.ok
          THEN HasOpen(src, "v") /\ OpenKey(src) \in Keys
          ELSE src.vknown => src.vopen > 0]_vars

\* What the source's closed chapters give when finished in their order.
FinishedOf(cs) ==
    [i \in 1..Len(cs) |-> [book |-> cs[i].book, chapter |-> cs[i].chapter,
                           verses |-> FormatRuns(cs[i].runs)]]

\* C15: finished_chapters changes only by a chapter end processed while
\* in_book and in_chapter are both set, and then by one entry appended, the
\* entries before it unchanged; so for a conforming source the entries are
\* the requested chapters in the order their end tags occur in the source,
\* whatever the order of the selectors.
C15_AppendOnly ==
    /\ [][finished_chapters' # finished_chapters =>
            /\ EndChapter /\ IsSome(in_book) /\ IsSome(in_chapter)
            /\ Len(finished_chapters') = Len(finished_chapters) + 1
            /\ SubSeq(finished_chapters', 1, Len(finished_chapters))
                  = finished_chapters]_vars
    /\ [](Conforming => finished_chapters = FinishedOf(src.closed))

\* Chapter 1 was finished before chapter 2, with the selectors in the other
\* order.
C15_Witness ==
    /\ Conforming /\ chapters = <<G2, G1>>
    /\ KeysOf(finished_chapters) =
          <<[book |-> <<"G">>, chapter |-> <<"1">>],
            [book |-> <<"G">>, chapter |-> <<"2">>]>>

\* A chapter-start, chapter-end, verse-start, verse-end or text event is
\* processed, by whichever arm.
InnerEvent ==
    \/ \E n \in AttrPool("c") : StartChapter(n) \/ StartIgnored("c", n)
    \/ \E n \in AttrPool("v") : StartVerse(n) \/ StartIgnored("v", n)
    \/ EndChapter \/ EndIgnored("c")
    \/ EndVerse \/ EndIgnored("v")
    \/ \E raw \in TextPool : TextInVerse(raw) \/ TextIgnored(raw)

\* C16: while in_book is None, every chapter-start, chapter-end,
\* verse-start, verse-end and text event leaves in_book, in_chapter,
\* in_verse, the accumulator and finished_chapters unchanged.
C16_OutsideBookFrame ==
    [][(in_book = None /\ InnerEvent) => UNCHANGED scanVars]_vars

\* The scanner is inside a verse of a book that is not requested, with a
\* chapter finished before.
C16_Witness ==
    /\ pc = "scan" /\ in_book = None
    /\ src.ok /\ HasOpen(src, "v")
    /\ Len(finished_chapters) = 1

\* C17: after a book-end event, processed in whatever state, in_book and
\* in_chapter are None.
C17_BookEndResets ==
    [][EndBook => (in_book' = None /\ in_chapter' = None)]_vars

\* A book end was processed inside a verse of a matched chapter.
C17_Witness ==
    /\ pc = "scan" /\ in_book = None /\ in_chapter = None
    /\ IsSome(in_verse) /\ verses # << >>

\* C18 as stated: in every reachable state in_verse is set only while
\* in_chapter is set, and in_chapter only while in_book is set (Outside,
\* InBook, InChapter, InVerse).
C18_AsStated ==
    /\ IsSome(in_verse) => IsSome(in_chapter)
    /\ IsSome(in_chapter) => IsSome(in_book)

\* C19: in_chapter is set only while in_book is set; it is given a value
\* only by a chapter-start processed while in_book is set; every step that
\* clears in_book leaves in_chapter None.
C19_ChapterInsideBook ==
    /\ [](IsSome(in_chapter) => IsSome(in_book))
    /\ [][(IsSome(in_chapter') /\ in_chapter' # in_chapter) =>
            (IsSome(in_book) /\ \E n \in AttrPool("c") : StartChapter(n))]_vars
    /\ [][(IsSome(in_book) /\ in_book' = None) => in_chapter' = None]_vars

\* A book end was processed while a matched chapter with buffered verses
\* was open, outside a verse.
C19_Witness ==
    /\ pc = "scan" /\ in_book = None /\ in_chapter = None
    /\ in_verse = None /\ verses # << >>

\* The states in which main has returned, or the process has ended.
Terminal == {"done", "BadChapter", "ParseError", "WriteJSON", "panic"}

====
